---- MODULE Spec2Model ----
(***************************************************************************)
(* Gmail-Sync: one-way synchronisation of Google Calendar events into an   *)
(* Office 365 calendar (src/calendar_sync.py, class CalendarSync).          *)
(*                                                                         *)
(* Strings that the program builds or takes apart (event ids, timestamps,  *)
(* event keys) are sequences of one-character strings; strings it only     *)
(* copies and compares (titles, locations, status texts) are TLA+ strings. *)
(* A Python dict is a function whose domain is the set of keys present.    *)
(***************************************************************************)
EXTENDS Integers, Sequences, FiniteSets, TLC

VARIABLES
    gcal,             \* the Google calendar: sequence of events, by start time
    dest,             \* the Office 365 calendar: sequence of stored events
    clock,            \* datetime.utcnow(), in the unit of the timestamps
    pc,               \* position of the run inside start_sync / sync_calendars
    run,              \* number of runs of start_sync started so far
    events,           \* sync_calendars: events (result of the source read)
    headers,          \* sync_calendars: header names set on the requests session
    existing_events,  \* sync_calendars: mapping returned by get_existing_events
    idx,              \* sync_calendars: position of the for loop in events
    decisions,        \* history: per processed event, what the loop decided
    calls,            \* history: write calls (POST / PATCH) issued in this run
    status,           \* status_label text
    outcome,          \* how sync_calendars ended in this run
    srcWindow,        \* timeMin / timeMax sent to the source read of this run
    dstWindow,        \* bounds sent in $filter to the destination read
    reads,            \* history: remote reads issued in this run
    prev,             \* history: the previous run (source list, writes all ok)
    runLimit,         \* runs of start_sync the behaviour may hold
    destBefore,       \* history: the Office 365 calendar when the run started
    auth,             \* history: how the two authentications of the run ended
    keyTest,          \* harness of create_event_key as a pure function
    config,           \* __init__: config.json and what load_config made of it
    other             \* sync_calendars run by a second instance of the program

vars == <<gcal, dest, clock, pc, run, events, headers, existing_events, idx,
          decisions, calls, status, outcome, srcWindow, dstWindow, reads,
          prev, runLimit, destBefore, auth, keyTest, config, other>>

-----------------------------------------------------------------------------
(* Bounds of the model *)

\* events the Office 365 calendar can hold; a POST beyond it is rejected
MaxDest == 3
\* runs of start_sync in the specification of repeated runs
MaxRuns == 2
\* last value of the clock
MaxClock == 1
\* longest id / timestamp of the create_event_key harness
MaxKeyLen == 2

-----------------------------------------------------------------------------
(* Values *)

\* timedelta(days=30): the timestamps of the model count days
WindowLen == 30

\* maxResults of the source read
MaxResults == 250

\* Python's None, as a value distinct from every string
None == <<"None">>

\* a dict with no key
EmptyDict == [k \in {} |-> k]

Digits == <<"0", "1", "2", "3", "4", "5", "6", "7", "8", "9">>

\* datetime.isoformat() + 'Z', reduced to a two-digit timestamp
IsoFormat(t) == <<Digits[(t \div 10) + 1], Digits[(t % 10) + 1]>>

DigitValue(c) == (CHOOSE d \in 1..10 : Digits[d] = c) - 1

\* the remote services' reading of a timestamp
TimeOf(ts) == 10 * DigitValue(ts[1]) + DigitValue(ts[2])

\* str(x) inside an f-string
Str(x) == IF x = None THEN <<"N", "o", "n", "e">> ELSE x

\* dict.get(key, default)
Get(d, key, default) == IF key \in DOMAIN d THEN d[key] ELSE default

-----------------------------------------------------------------------------
(* create_event_key *)

\* event['start'].get('dateTime', event['start'].get('date'))
StartTime(event) == Get(event["start"], "dateTime", Get(event["start"], "date", None))

\* event['end'].get('dateTime', event['end'].get('date'))
EndTime(event) == Get(event["end"], "dateTime", Get(event["end"], "date", None))

\* create_event_key reading only 'dateTime': an all-day event has no start
create_event_key_dateTime_only(event, is_google) ==
    Str(Get(event, "id", <<>>)) \o <<"_">>
        \o Str(Get(event["start"], "dateTime", None))

\* f"{event_id}_{start_time}"; both branches of is_google do the same
create_event_key(event, is_google) ==
    IF is_google
    THEN Str(Get(event, "id", <<>>)) \o <<"_">> \o Str(StartTime(event))
    ELSE Str(Get(event, "id", <<>>)) \o <<"_">> \o Str(StartTime(event))

-----------------------------------------------------------------------------
(* sync_calendars: the payload and the update decision *)

\* event.get('summary', 'No Title')
Summary(event) == Get(event, "summary", "No Title")

\* o365_event with the end copied from the start
O365Event_end_from_start(event) ==
    (IF "description" \in DOMAIN event
     THEN [body |-> [contentType |-> "text", content |-> event["description"]]]
     ELSE EmptyDict)
    @@
    (IF "location" \in DOMAIN event
     THEN [location |-> [displayName |-> event["location"]]]
     ELSE EmptyDict)
    @@
    [subject |-> Summary(event),
     start   |-> [dateTime |-> StartTime(event),
                  timeZone |-> Get(event["start"], "timeZone", "UTC")],
     end     |-> [dateTime |-> StartTime(event),
                  timeZone |-> Get(event["start"], "timeZone", "UTC")]]

\* o365_event
O365Event(event) ==
    (IF "description" \in DOMAIN event
     THEN [body |-> [contentType |-> "text", content |-> event["description"]]]
     ELSE EmptyDict)
    @@
    (IF "location" \in DOMAIN event
     THEN [location |-> [displayName |-> event["location"]]]
     ELSE EmptyDict)
    @@
    [subject |-> Summary(event),
     start   |-> [dateTime |-> StartTime(event),
                  timeZone |-> Get(event["start"], "timeZone", "UTC")],
     end     |-> [dateTime |-> EndTime(event),
                  timeZone |-> Get(event["end"], "timeZone", "UTC")]]

\* needs_update without the comparison of the end
needs_update_no_end(existing_event, o365_event, event_summary) ==
    \/ existing_event["subject"] # event_summary
    \/ existing_event["start"]["dateTime"] # o365_event["start"]["dateTime"]
    \/ /\ "location" \in DOMAIN o365_event
       /\ \/ "location" \notin DOMAIN existing_event
          \/ existing_event["location"]["displayName"]
                 # o365_event["location"]["displayName"]

\* needs_update comparing the location also when the source event has none
needs_update_any_location(existing_event, o365_event, event_summary) ==
    \/ existing_event["subject"] # event_summary
    \/ existing_event["start"]["dateTime"] # o365_event["start"]["dateTime"]
    \/ existing_event["end"]["dateTime"] # o365_event["end"]["dateTime"]
    \/ IF "location" \in DOMAIN o365_event /\ "location" \in DOMAIN existing_event
       THEN existing_event["location"]["displayName"]
                # o365_event["location"]["displayName"]
       ELSE ("location" \in DOMAIN o365_event)
                # ("location" \in DOMAIN existing_event)

\* needs_update
needs_update(existing_event, o365_event, event_summary) ==
    \/ existing_event["subject"] # event_summary
    \/ existing_event["start"]["dateTime"] # o365_event["start"]["dateTime"]
    \/ existing_event["end"]["dateTime"] # o365_event["end"]["dateTime"]
    \/ /\ "location" \in DOMAIN o365_event
       /\ \/ "location" \notin DOMAIN existing_event
          \/ existing_event["location"]["displayName"]
                 # o365_event["location"]["displayName"]

\* the inner try without its else branch: an unknown key gets no call
Decision_no_create(existing, event) ==
    IF create_event_key(event, TRUE) \in DOMAIN existing
    THEN IF needs_update(existing[create_event_key(event, TRUE)],
                         O365Event(event), Summary(event))
         THEN "UPDATE"
         ELSE "SKIP"
    ELSE "SKIP"

\* the branch of the inner try taken for event
Decision(existing, event) ==
    IF create_event_key(event, TRUE) \in DOMAIN existing
    THEN IF needs_update(existing[create_event_key(event, TRUE)],
                         O365Event(event), Summary(event))
         THEN "UPDATE"
         ELSE "SKIP"
    ELSE "CREATE"

\* event['start'] or event['end'] raises KeyError before the inner try
KeyErrorIn(event) ==
    IF "start" \notin DOMAIN event THEN "'start'"
    ELSE IF "end" \notin DOMAIN event THEN "'end'"
    ELSE "none"

\* no inner try / except: a failed write leaves the loop
AfterWrite_propagates(ok) == IF ok THEN "continue" ELSE "raise"

\* the inner try / except: a failed write is logged and the loop goes on
AfterWrite(ok) == "continue"

-----------------------------------------------------------------------------
(* get_existing_events *)

\* events_dict: the last event of the response with a key wins
EventsDict(value) ==
    LET keys == {create_event_key(value[i], FALSE) : i \in 1..Len(value)}
        last(k) == CHOOSE i \in 1..Len(value) :
                      /\ create_event_key(value[i], FALSE) = k
                      /\ \A j \in (i+1)..Len(value) :
                            create_event_key(value[j], FALSE) # k
    IN  [k \in keys |-> value[last(k)]]

\* get_existing_events answering a failed read from a copy of the calendar
get_existing_events_unchecked(ok, value) == EventsDict(value)

\* the mapping returned: {} when the request or its decoding raised
get_existing_events(ok, value) ==
    IF ok /\ \A i \in 1..Len(value) : "start" \in DOMAIN value[i]
    THEN EventsDict(value)
    ELSE EmptyDict

-----------------------------------------------------------------------------
(* The remote services, by their request parameters *)

\* [now, now + 30 days], as sent: both ends are isoformat() + 'Z'
SyncWindow(now) == [lo |-> IsoFormat(now), hi |-> IsoFormat(now + WindowLen)]

NoWindow == [lo |-> None, hi |-> None]

Within(ts, w) == TimeOf(w.lo) <= TimeOf(ts) /\ TimeOf(ts) <= TimeOf(w.hi)

Min(a, b) == IF a <= b THEN a ELSE b

\* events().list(timeMin, timeMax, maxResults, orderBy=startTime).execute():
\* the events whose start lies in the window, at most maxResults of them
GoogleList(cal, w) ==
    LET inWindow(e) == IF "start" \in DOMAIN e /\ StartTime(e) # None
                       THEN Within(StartTime(e), w)
                       ELSE TRUE
        items == SelectSeq(cal, inWindow)
    IN  SubSeq(items, 1, Min(Len(items), MaxResults))

\* GET /me/events with $filter on start/dateTime
GraphList(cal, w) ==
    LET inWindow(t) == Within(t["start"]["dateTime"], w)
    IN  SelectSeq(cal, inWindow)

\* the Office 365 service accepts an event that has both timestamps
Acceptable(o365_event) ==
    /\ o365_event["start"]["dateTime"] # None
    /\ o365_event["end"]["dateTime"] # None

\* ids the Office 365 service may give to a new event: opaque strings, one
\* of which is also the id of a Google event
DestIds == {<<"a">>, <<"x">>, <<"y">>}

UsedIds(cal) == {cal[i]["id"] : i \in 1..Len(cal)}

\* POST /me/events, accepted: the event is stored under a new id
Posted(cal, o365_event, id) == Append(cal, o365_event @@ [id |-> id])

\* PATCH /me/events/{id}, accepted: the payload's fields replace the stored ones
Patched(cal, o365_event, id) ==
    [i \in 1..Len(cal) |->
        IF cal[i]["id"] = id THEN o365_event @@ cal[i] ELSE cal[i]]

-----------------------------------------------------------------------------
(* start_sync *)

StatusStarting == <<"Starting sync process...">>
StatusSuccess == <<"Sync completed successfully!">>
StatusO365Failed == <<"O365 authentication failed">>

\* f"Error: {str(e)}"
StatusError(e) == <<"Error: ", e>>

NoAuth == [google |-> "none", o365 |-> "none"]

NoReads == [source |-> 0, dest |-> 0, destFailed |-> FALSE]

AllOk(cs) == \A k \in 1..Len(cs) : cs[k].ok

\* the button: start_sync up to the call of authenticate_google
StartSync ==
    /\ pc = "idle"
    /\ run < runLimit
    /\ run' = run + 1
    /\ pc' = "auth_google"
    /\ status' = StatusStarting
    /\ prev' = IF run = 0 THEN prev
               ELSE [valid |-> TRUE, events |-> events,
                     written |-> outcome = "returned" /\ AllOk(calls)]
    /\ events' = <<>>
    /\ headers' = {}
    /\ existing_events' = EmptyDict
    /\ idx' = 0
    /\ decisions' = <<>>
    /\ calls' = <<>>
    /\ outcome' = "none"
    /\ srcWindow' = NoWindow
    /\ dstWindow' = NoWindow
    /\ reads' = NoReads
    /\ destBefore' = dest
    /\ auth' = NoAuth
    /\ UNCHANGED <<gcal, dest, clock, runLimit, keyTest, config, other>>

\* except Exception in start_sync: the status line shows the error
Raise(e) ==
    /\ pc' = "idle"
    /\ status' = StatusError(e)

\* sync_calendars returned: start_sync reports success
Return ==
    /\ pc' = "idle"
    /\ outcome' = "returned"
    /\ status' = StatusSuccess

\* authenticate_google returns the service
AuthGoogleOk ==
    /\ pc = "auth_google"
    /\ pc' = "auth_o365"
    /\ auth' = [auth EXCEPT !.google = "ok"]
    /\ UNCHANGED <<gcal, dest, clock, run, events, headers,
                   existing_events, idx, decisions, calls, status, outcome,
                   srcWindow, dstWindow, reads, prev, runLimit, destBefore,
                   keyTest, config, other>>

\* authenticate_google raises FileNotFoundError or GoogleAPIError
AuthGoogleRaise ==
    /\ pc = "auth_google"
    /\ \E e \in {"client_secrets.json not found in credentials directory",
                 "Google authentication failed"} : Raise(e)
    /\ auth' = [auth EXCEPT !.google = "raised"]
    /\ UNCHANGED <<gcal, dest, clock, run, events, headers,
                   existing_events, idx, decisions, calls, outcome,
                   srcWindow, dstWindow, reads, prev, runLimit, destBefore,
                   keyTest, config, other>>

\* start_sync calling sync_calendars whatever authenticate_o365 returned
O365Branch_unchecked(authenticated) == "source_read"

\* if self.authenticate_o365(): ... else: ...
O365Branch(authenticated) == IF authenticated THEN "source_read" ELSE "idle"

\* authenticate_o365 returns True or False
AuthO365 ==
    /\ pc = "auth_o365"
    /\ \E authenticated \in BOOLEAN :
          /\ pc' = O365Branch(authenticated)
          /\ status' = IF authenticated THEN status ELSE StatusO365Failed
          /\ auth' = [auth EXCEPT
                         !.o365 = IF authenticated THEN "ok" ELSE "failed"]
    /\ UNCHANGED <<gcal, dest, clock, run, events, headers,
                   existing_events, idx, decisions, calls, outcome,
                   srcWindow, dstWindow, reads, prev, runLimit, destBefore,
                   keyTest, config, other>>

-----------------------------------------------------------------------------
(* sync_calendars *)

\* raise out of sync_calendars (the outer except logs and re-raises)
Abort(e) ==
    /\ Raise(e)
    /\ outcome' = "raised"

\* the source read: the window is computed from utcnow() here
SourceRead ==
    /\ pc = "source_read"
    /\ srcWindow' = SyncWindow(clock)
    /\ reads' = [reads EXCEPT !.source = @ + 1]
    /\ events' = GoogleList(gcal, srcWindow')
    /\ IF events' = <<>>
       THEN Return
       ELSE pc' = "open_session" /\ UNCHANGED <<status, outcome>>
    /\ UNCHANGED <<gcal, dest, clock, run, headers, existing_events, idx,
                   decisions, calls, dstWindow, prev, runLimit, destBefore,
                   auth, keyTest, config, other>>

\* the source read raises (network, rate limit, 4xx / 5xx)
SourceReadRaise ==
    /\ pc = "source_read"
    /\ srcWindow' = SyncWindow(clock)
    /\ reads' = [reads EXCEPT !.source = @ + 1]
    /\ Abort("source read failed")
    /\ UNCHANGED <<gcal, dest, clock, run, events, headers,
                   existing_events, idx, decisions, calls, dstWindow, prev,
                   runLimit, destBefore, auth, keyTest, config, other>>

\* the token is read from the browser session and the cookies are loaded;
\* the cookies file is there: authenticate_o365 wrote it before returning True
OpenSession ==
    /\ pc = "open_session"
    /\ pc' = "dest_read"
    /\ UNCHANGED <<gcal, dest, clock, run, events, headers,
                   existing_events, idx, decisions, calls, status, outcome,
                   srcWindow, dstWindow, reads, prev, runLimit, destBefore,
                   auth, keyTest, config, other>>

\* webdriver.Chrome() or the script raises
OpenSessionRaise ==
    /\ pc = "open_session"
    /\ Abort("browser session failed")
    /\ UNCHANGED <<gcal, dest, clock, run, events, headers,
                   existing_events, idx, decisions, calls, srcWindow,
                   dstWindow, reads, prev, runLimit, destBefore, auth,
                   keyTest, config, other>>

\* existing_events = self.get_existing_events(session)
DestRead ==
    /\ pc = "dest_read"
    /\ dstWindow' = SyncWindow(clock)
    /\ \E ok \in BOOLEAN :
          /\ reads' = [reads EXCEPT !.dest = @ + 1, !.destFailed = ~ok]
          /\ existing_events' =
                 get_existing_events(ok, GraphList(dest, dstWindow'))
    /\ pc' = "loop"
    /\ idx' = 1
    /\ UNCHANGED <<gcal, dest, clock, run, events, headers, decisions,
                   calls, status, outcome, srcWindow, prev, runLimit,
                   destBefore, auth, keyTest, config, other>>

\* session.headers.update({...})
SetHeaders == headers' = headers \cup {"Authorization", "Content-Type"}

\* the end of one iteration of the for loop
Continue ==
    /\ idx' = idx + 1
    /\ IF idx = Len(events) THEN Return ELSE UNCHANGED <<pc, outcome, status>>

\* what follows a write call that ended with ok
Written(ok) ==
    IF AfterWrite(ok) = "continue"
    THEN Continue
    ELSE Abort("write failed") /\ idx' = idx

\* the key is found and needs_update is False: no call
SkipEvent ==
    /\ pc = "loop"
    /\ LET event == events[idx]
       IN  /\ KeyErrorIn(event) = "none"
           /\ Decision(existing_events, event) = "SKIP"
           /\ decisions' = Append(decisions, "SKIP")
    /\ SetHeaders
    /\ Continue
    /\ UNCHANGED <<gcal, dest, clock, run, events, existing_events, calls,
                   srcWindow, dstWindow, reads, prev, runLimit, destBefore,
                   auth, keyTest, config, other>>

\* the key is found and needs_update is True: session.patch
PatchEvent ==
    /\ pc = "loop"
    /\ LET event == events[idx]
           o365_event == O365Event(event)
           event_key == create_event_key(event, TRUE)
       IN  /\ KeyErrorIn(event) = "none"
           /\ Decision(existing_events, event) = "UPDATE"
           /\ decisions' = Append(decisions, "UPDATE")
           /\ \E ok \in BOOLEAN :
                 /\ ok => Acceptable(o365_event)
                 /\ dest' = IF ok
                            THEN Patched(dest, o365_event,
                                         existing_events[event_key]["id"])
                            ELSE dest
                 /\ calls' = Append(calls,
                        [idx |-> idx, method |-> "PATCH",
                         target |-> existing_events[event_key]["id"],
                         json |-> o365_event, ok |-> ok])
                 /\ Written(ok)
    /\ SetHeaders
    /\ UNCHANGED <<gcal, clock, run, events, existing_events, srcWindow,
                   dstWindow, reads, prev, runLimit, destBefore, auth,
                   keyTest, config, other>>

\* the key is not found: session.post
PostEvent ==
    /\ pc = "loop"
    /\ LET event == events[idx]
           o365_event == O365Event(event)
           event_key == create_event_key(event, TRUE)
       IN  /\ KeyErrorIn(event) = "none"
           /\ Decision(existing_events, event) = "CREATE"
           /\ decisions' = Append(decisions, "CREATE")
           /\ \E ok \in BOOLEAN :
                 /\ ok => Acceptable(o365_event) /\ Len(dest) < MaxDest
                 /\ IF ok
                    THEN \E id \in DestIds \ UsedIds(dest) :
                            dest' = Posted(dest, o365_event, id)
                    ELSE dest' = dest
                 /\ calls' = Append(calls,
                        [idx |-> idx, method |-> "POST", target |-> None,
                         json |-> o365_event, ok |-> ok])
                 /\ Written(ok)
    /\ SetHeaders
    /\ UNCHANGED <<gcal, clock, run, events, existing_events, srcWindow,
                   dstWindow, reads, prev, runLimit, destBefore, auth,
                   keyTest, config, other>>

\* event['start'] or event['end'] is missing: KeyError leaves the loop
RaiseKeyError ==
    /\ pc = "loop"
    /\ KeyErrorIn(events[idx]) # "none"
    /\ Abort(KeyErrorIn(events[idx]))
    /\ UNCHANGED <<gcal, dest, clock, run, events, headers,
                   existing_events, idx, decisions, calls, srcWindow,
                   dstWindow, reads, prev, runLimit, destBefore, auth,
                   keyTest, config, other>>

\* time passes; the clock is read by the two reads only
Tick ==
    /\ pc \in {"source_read", "open_session", "dest_read"}
    /\ clock < MaxClock
    /\ clock' = clock + 1
    /\ UNCHANGED <<gcal, dest, pc, run, events, headers, existing_events,
                   idx, decisions, calls, status, outcome, srcWindow,
                   dstWindow, reads, prev, runLimit, destBefore, auth,
                   keyTest, config, other>>

-----------------------------------------------------------------------------
(* The calendars a run can start from *)

NoField == "(absent)"

Opt(key, v) == IF v = NoField THEN EmptyDict ELSE (key :> v)

GoogleIds == {<<"a">>, <<"b">>}
Titles == {NoField, "S"}
Locations == {NoField, "L"}

\* a timed event and an all-day event
Times ==
    {[start |-> [dateTime |-> <<"0", "0">>], end |-> [dateTime |-> <<"0", "6">>]],
     [start |-> [date |-> <<"0", "5">>], end |-> [date |-> <<"0", "7">>]]}

GoogleEvent(id, summary, time, location) ==
    Opt("summary", summary) @@ Opt("location", location)
    @@ [id |-> id, start |-> time.start, end |-> time.end]

GoogleEvents ==
    {GoogleEvent(id, s, t, l) :
        id \in GoogleIds, s \in Titles, t \in Times, l \in Locations}

\* ids are unique and the list is ordered by start time
IsCalendar(cal) ==
    /\ \A i, j \in 1..Len(cal) : i # j => cal[i]["id"] # cal[j]["id"]
    /\ \A i, j \in 1..Len(cal) :
          i < j => TimeOf(StartTime(cal[i])) <= TimeOf(StartTime(cal[j]))

GoogleCalendars ==
    {<<>>} \cup {<<e>> : e \in GoogleEvents}
    \cup {c \in {<<e1, e2>> : e1 \in GoogleEvents, e2 \in GoogleEvents} :
             IsCalendar(c)}

\* an event as the Office 365 calendar stores it
StoredEvent(id, subject, start, end, location) ==
    (IF location = NoField THEN EmptyDict
     ELSE [location |-> [displayName |-> location]])
    @@ [id |-> id, subject |-> subject,
        start |-> [dateTime |-> start, timeZone |-> "UTC"],
        end |-> [dateTime |-> end, timeZone |-> "UTC"]]

StoredEvents ==
    {StoredEvent(id, s, st, en, l) :
        id \in {<<"a">>, <<"x">>}, s \in {"S", "No Title"},
        st \in {<<"0", "0">>, <<"0", "5">>},
        en \in {<<"0", "6">>, <<"0", "7">>}, l \in Locations}

\* the Office 365 calendar holds nothing or one event
DestCalendars == {<<>>} \cup {<<t>> : t \in StoredEvents}

\* One run of start_sync (Init, Spec) starts from any Google calendar of at
\* most two events and any Office 365 calendar of at most one event.  The
\* Google events are those the API returns: each has a start and an end with
\* a dateTime or a date.  Lists with a malformed event are InitMalformed.

NoPrev == [valid |-> FALSE, events |-> <<>>, written |-> FALSE]

NoKeyTest == [stage |-> "off"]

\* load_config is not followed
NoConfig == [stage |-> "off"]

\* no second instance of the program
NoOther == [pc |-> "off"]

InitRun ==
    /\ clock = 0
    /\ pc = "idle"
    /\ run = 0
    /\ events = <<>>
    /\ headers = {}
    /\ existing_events = EmptyDict
    /\ idx = 0
    /\ decisions = <<>>
    /\ calls = <<>>
    /\ status = <<"">>
    /\ outcome = "none"
    /\ srcWindow = NoWindow
    /\ dstWindow = NoWindow
    /\ reads = NoReads
    /\ prev = NoPrev
    /\ destBefore = dest
    /\ auth = NoAuth

Init ==
    /\ gcal \in GoogleCalendars
    /\ dest \in DestCalendars
    /\ runLimit = 1
    /\ keyTest = NoKeyTest
    /\ config = NoConfig
    /\ other = NoOther
    /\ InitRun

Next ==
    \/ StartSync
    \/ AuthGoogleOk
    \/ AuthGoogleRaise
    \/ AuthO365
    \/ SourceRead
    \/ SourceReadRaise
    \/ OpenSession
    \/ OpenSessionRaise
    \/ DestRead
    \/ SkipEvent
    \/ PatchEvent
    \/ PostEvent
    \/ Tick

Spec == Init /\ [][Next]_vars

-----------------------------------------------------------------------------
(* create_event_key as a pure function: one event, its key computed *)

\* strings over alphabet of length 1..n
Strings(alphabet, n) ==
    UNION {[1..k -> alphabet] : k \in 1..n}

\* ids: a recurring event's instances carry '_' in their id
KeyIds == Strings({"0", "_"}, MaxKeyLen)

\* timestamps (date-time or date strings) hold no '_'
KeyTimes == Strings({"0", "1"}, MaxKeyLen)

KeyStarts ==
    {EmptyDict}
    \cup {[dateTime |-> t] : t \in KeyTimes}
    \cup {[date |-> t] : t \in KeyTimes}
    \cup {[dateTime |-> t, date |-> <<"1">>] : t \in KeyTimes}

KeyEvents ==
    {[start |-> st] @@ Opt("summary", s) : st \in KeyStarts, s \in Titles}
    \cup {[id |-> id, start |-> st] @@ Opt("summary", s) :
             id \in KeyIds, st \in KeyStarts, s \in Titles}

ComputeKey ==
    /\ keyTest.stage = "input"
    /\ keyTest' = [stage |-> "done", event |-> keyTest.event,
                   is_google |-> keyTest.is_google,
                   key |-> create_event_key(keyTest.event, keyTest.is_google)]
    /\ UNCHANGED <<gcal, dest, clock, pc, run, events, headers,
                   existing_events, idx, decisions, calls, status, outcome,
                   srcWindow, dstWindow, reads, prev, runLimit, destBefore,
                   auth, config, other>>

InitKey ==
    /\ keyTest \in [stage : {"input"}, event : KeyEvents, is_google : BOOLEAN]
    /\ gcal = <<>>
    /\ dest = <<>>
    /\ runLimit = 0
    /\ config = NoConfig
    /\ other = NoOther
    /\ InitRun

NextKey == ComputeKey

SpecKey == InitKey /\ [][NextKey]_vars

\* the id and the start timestamp of two events are the same
SameIdAndStart(e1, e2) ==
    /\ ("id" \in DOMAIN e1) = ("id" \in DOMAIN e2)
    /\ "id" \in DOMAIN e1 => e1["id"] = e2["id"]
    /\ StartTime(e1) = StartTime(e2)

\* C3: the key of an event is the key of every event with the same id and
\* start timestamp, whatever is_google and the other fields are, and differs
\* from the key of every event whose id or start timestamp differs.
C3_KeyStability ==
    keyTest.stage = "done" =>
        \A e \in KeyEvents : \A g \in BOOLEAN :
            (create_event_key(e, g) = keyTest.key)
                = SameIdAndStart(e, keyTest.event)

\* a key computed for a recurring instance (an id with '_') of an all-day
\* event that has a summary
C3_Witness ==
    /\ keyTest.stage = "done"
    /\ keyTest.event = [id |-> <<"0", "_">>, start |-> [date |-> <<"0", "1">>],
                        summary |-> "S"]
    /\ keyTest.key = <<"0", "_", "_", "0", "1">>

-----------------------------------------------------------------------------
(* Properties of one run *)

\* positions in calls of the write calls made for the i-th source event
CallsOf(i) == {k \in 1..Len(calls) : calls[k].idx = i}

\* the run is over
RunOver == pc = "idle" /\ run > 0

\* events the run added to the Office 365 calendar
NewEvents == SubSeq(dest, Len(destBefore) + 1, Len(dest))

\* C4: after a run whose target mapping was empty and whose writes all
\* succeeded, the destination holds what it held before plus exactly one new
\* event per source event, in the order of the source list, with the source
\* event's title, start timestamp and end timestamp.
C4_Mirroring ==
    (RunOver /\ outcome = "returned" /\ existing_events = EmptyDict
        /\ AllOk(calls))
    => /\ Len(dest) = Len(destBefore) + Len(events)
       /\ SubSeq(dest, 1, Len(destBefore)) = destBefore
       /\ \A i \in 1..Len(events) :
             /\ NewEvents[i]["subject"] = Summary(events[i])
             /\ NewEvents[i]["start"]["dateTime"] = StartTime(events[i])
             /\ NewEvents[i]["end"]["dateTime"] = EndTime(events[i])

\* a run over two source events (one without a title), the destination read
\* succeeded and returned nothing, both writes succeeded
C4_Witness ==
    /\ RunOver /\ outcome = "returned"
    /\ reads.dest = 1 /\ ~reads.destFailed /\ existing_events = EmptyDict
    /\ Len(events) = 2 /\ Len(calls) = 2 /\ AllOk(calls)
    /\ "summary" \notin DOMAIN events[1]
    /\ Len(destBefore) = 1

\* C5: once the destination read has failed the mapping is empty, every
\* source event processed so far got one POST and no PATCH, the run has not
\* raised, and when it is over sync_calendars has returned with a POST for
\* every source event.
C5_ReadFailure ==
    reads.destFailed
    => /\ existing_events = EmptyDict
       /\ outcome # "raised"
       /\ Len(calls) = idx - 1
       /\ \A k \in 1..Len(calls) :
             calls[k].method = "POST" /\ calls[k].idx = k
       /\ RunOver => outcome = "returned" /\ Len(calls) = Len(events)

\* the read failed while the destination held, inside the window, an event
\* stored under the key of a source event; the run is over
C5_Witness ==
    /\ RunOver /\ reads.destFailed
    /\ Len(events) = 2
    /\ Len(destBefore) = 1
    /\ Within(destBefore[1]["start"]["dateTime"], dstWindow)
    /\ create_event_key(destBefore[1], FALSE)
           = create_event_key(events[1], TRUE)

\* C6: a failed write never makes the run raise; the loop goes on: every
\* event before the loop position has its decision, and its write call
\* unless the decision is SKIP, and when the run is over every source event
\* has been processed.
C6_PartialFailure ==
    (\E k \in 1..Len(calls) : ~calls[k].ok)
    => /\ outcome # "raised"
       /\ Len(decisions) = idx - 1
       /\ \A i \in 1..Len(decisions) :
             /\ decisions[i] = Decision(existing_events, events[i])
             /\ decisions[i] # "SKIP" => CallsOf(i) # {}
       /\ RunOver => outcome = "returned" /\ Len(decisions) = Len(events)

\* the write of the first of two events failed (a PATCH), the second event
\* was then written, the run is over
C6_Witness ==
    /\ RunOver
    /\ Len(events) = 2 /\ Len(calls) = 2
    /\ ~calls[1].ok /\ calls[1].method = "PATCH" /\ calls[1].idx = 1
    /\ calls[2].ok /\ calls[2].idx = 2

\* a compared field of the target event differs from the source event
Differs(t, e) ==
    \/ t["subject"] # Summary(e)
    \/ t["start"]["dateTime"] # StartTime(e)
    \/ t["end"]["dateTime"] # EndTime(e)
    \/ /\ "location" \in DOMAIN e
       /\ IF "location" \in DOMAIN t
          THEN t["location"]["displayName"] # e["location"]
          ELSE TRUE

\* C8: every processed source event caused one POST (key not in the target
\* mapping), or one PATCH to the matched target's id (key found, a compared
\* field differs), or no call (key found, nothing differs); an event not yet
\* processed caused none; no event has two calls, failed or not.
C8_OneDecision ==
    \A i \in 1..Len(events) :
        LET key == create_event_key(events[i], TRUE)
            cs  == CallsOf(i)
        IN  IF i > Len(decisions) THEN cs = {}
            ELSE IF key \notin DOMAIN existing_events
            THEN /\ Cardinality(cs) = 1
                 /\ \A k \in cs : calls[k].method = "POST"
            ELSE IF Differs(existing_events[key], events[i])
            THEN /\ Cardinality(cs) = 1
                 /\ \A k \in cs :
                       /\ calls[k].method = "PATCH"
                       /\ calls[k].target = existing_events[key]["id"]
            ELSE cs = {}

\* a run over two events: a PATCH that failed, because only the end
\* differs, and a POST
C8_Witness ==
    /\ RunOver
    /\ Len(calls) = 2
    /\ calls[1].method = "PATCH" /\ ~calls[1].ok
    /\ calls[2].method = "POST"
    /\ LET t == existing_events[create_event_key(events[1], TRUE)]
       IN  /\ t["subject"] = Summary(events[1])
           /\ t["end"]["dateTime"] # EndTime(events[1])
           /\ "location" \notin DOMAIN events[1]

\* C9: when authenticate_google raised or authenticate_o365 returned False
\* the run is over without a source read, a destination read or a write,
\* and the status line is an error text, not the success text.
C9_AuthFailureAborts ==
    (auth.google = "raised" \/ auth.o365 = "failed")
    => /\ pc = "idle"
       /\ reads = NoReads
       /\ calls = <<>>
       /\ status # StatusSuccess
       /\ status = StatusO365Failed \/ status[1] = "Error: "

\* authenticate_o365 returned False in a run whose source list and
\* destination are not empty
C9_Witness ==
    /\ auth.google = "ok" /\ auth.o365 = "failed"
    /\ status = StatusO365Failed
    /\ Len(gcal) = 2 /\ Len(dest) = 1

\* C10: the bounds sent to the destination read of a run are the bounds sent
\* to its source read.
C10_OneWindow == reads.dest > 0 => dstWindow = srcWindow

\* the fields among title, start, end, location in which source event e
\* differs from target event t
Changed(t, e) ==
    {f \in {"title", "start", "end", "location"} :
        \/ f = "title" /\ t["subject"] # Summary(e)
        \/ f = "start" /\ t["start"]["dateTime"] # StartTime(e)
        \/ f = "end" /\ t["end"]["dateTime"] # EndTime(e)
        \/ f = "location"
           /\ IF "location" \in DOMAIN t /\ "location" \in DOMAIN e
              THEN t["location"]["displayName"] # e["location"]
              ELSE ("location" \in DOMAIN t) # ("location" \in DOMAIN e)}

\* C2: for a target event of the mapping and the source event it was written
\* from (the same id), when the source event now differs from it in exactly
\* one of title, start, end, location the run issues exactly one write call
\* for it, a PATCH to the target's id carrying the source event's values;
\* when it differs in none the run issues no call for it.
C2_UpdateTriggers ==
    (RunOver /\ outcome = "returned" /\ ~reads.destFailed)
    => \A i \in 1..Len(events) : \A key \in DOMAIN existing_events :
          LET t == existing_events[key]
              n == Cardinality(Changed(t, events[i]))
          IN  t["id"] = events[i]["id"]
              => /\ n = 0 => CallsOf(i) = {}
                 /\ n = 1 =>
                       /\ Cardinality(CallsOf(i)) = 1
                       /\ \A k \in CallsOf(i) :
                             /\ calls[k].method = "PATCH"
                             /\ calls[k].target = t["id"]
                             /\ calls[k].json = O365Event(events[i])

-----------------------------------------------------------------------------
(* Repeated runs over a source list of at most one event *)

InitRepeat ==
    /\ gcal \in {c \in GoogleCalendars : Len(c) <= 1}
    /\ dest \in DestCalendars
    /\ runLimit = MaxRuns
    /\ keyTest = NoKeyTest
    /\ config = NoConfig
    /\ other = NoOther
    /\ InitRun

SpecRepeat == InitRepeat /\ [][Next]_vars

\* C1: when the previous run returned with every write call accepted, and
\* this run read the same source list and read the destination without
\* failure, this run issues no POST and no PATCH.
C1_Idempotence ==
    (RunOver /\ outcome = "returned" /\ ~reads.destFailed
        /\ prev.valid /\ prev.written /\ prev.events = events
        /\ dstWindow = srcWindow)
    => calls = <<>>

-----------------------------------------------------------------------------
(* Runs over source lists that hold a malformed event *)

\* events without start or end, or without dateTime and date in one of them
MalformedEvents ==
    {e @@ [id |-> id, summary |-> "S"] :
        id \in GoogleIds,
        e \in {[end |-> [dateTime |-> <<"0", "6">>]],
               [start |-> [dateTime |-> <<"0", "0">>]],
               [start |-> EmptyDict, end |-> [dateTime |-> <<"0", "6">>]],
               [start |-> [dateTime |-> <<"0", "0">>], end |-> EmptyDict]}}

Malformed(e) ==
    IF "start" \notin DOMAIN e \/ "end" \notin DOMAIN e THEN TRUE
    ELSE StartTime(e) = None \/ EndTime(e) = None

MalformedCalendars ==
    {<<e>> : e \in MalformedEvents}
    \cup {c \in {<<e1, e2>> : e1 \in GoogleEvents \cup MalformedEvents,
                              e2 \in GoogleEvents \cup MalformedEvents} :
             /\ c[1]["id"] # c[2]["id"]
             /\ Malformed(c[1]) # Malformed(c[2])}

InitMalformed ==
    /\ gcal \in MalformedCalendars
    /\ dest \in {c \in DestCalendars :
                    Len(c) = 1 => /\ c[1]["id"] = <<"a">>
                                  /\ "location" \notin DOMAIN c[1]}
    /\ runLimit = 1
    /\ keyTest = NoKeyTest
    /\ config = NoConfig
    /\ other = NoOther
    /\ InitRun

NextMalformed == Next \/ RaiseKeyError

SpecMalformed == InitMalformed /\ [][NextMalformed]_vars

\* C7: in a run that reached the loop, a malformed source event gets no
\* write call, every other source event is processed, and sync_calendars
\* returns.
C7_MalformedIsolated ==
    (RunOver /\ reads.dest > 0)
    => /\ outcome = "returned"
       /\ \A i \in 1..Len(events) :
             IF Malformed(events[i])
             THEN CallsOf(i) = {}
             ELSE i <= Len(decisions)

-----------------------------------------------------------------------------
(* Runs over one source event with every optional field present or absent *)

Descriptions == {NoField, "D"}
TimeZones == {NoField, "Europe/Paris"}

\* a Google event with optional summary, description, location and, in
\* start and end, an optional timeZone
FieldEvents ==
    {Opt("summary", s) @@ Opt("description", d) @@ Opt("location", l)
     @@ [id |-> <<"a">>,
         start |-> t.start @@ Opt("timeZone", z1),
         end |-> t.end @@ Opt("timeZone", z2)] :
        s \in Titles, d \in Descriptions, l \in Locations, t \in Times,
        z1 \in TimeZones, z2 \in TimeZones}

\* stored events with any location and with or without a body
FieldStored ==
    {StoredEvent(<<"a">>, s, st, en, l)
     @@ (IF b = NoField THEN EmptyDict
         ELSE [body |-> [contentType |-> "text", content |-> b]]) :
        s \in {"S", "No Title"}, st \in {<<"0", "0">>, <<"0", "5">>},
        en \in {<<"0", "6">>, <<"0", "7">>}, l \in Locations \cup {"M"},
        b \in {NoField, "E"}}

InitFields ==
    /\ gcal \in {<<e>> : e \in FieldEvents}
    /\ dest \in {<<>>} \cup {<<t>> : t \in FieldStored}
    /\ runLimit = 1
    /\ keyTest = NoKeyTest
    /\ config = NoConfig
    /\ other = NoOther
    /\ InitRun

SpecFields == InitFields /\ [][Next]_vars

\* C11: the payload of every write call has the source event's title as
\* subject ("No Title" when the event has no summary), start and end with the
\* event's timestamp and its timezone ("UTC" when the event gives none), a
\* body of content type text holding the description exactly when the event
\* has a description, a location holding the display name exactly when the
\* event has a location, and nothing else.
C11_Payload ==
    \A k \in 1..Len(calls) :
        LET e == events[calls[k].idx]
            p == calls[k].json
            stamp(part) == IF "dateTime" \in DOMAIN part THEN part["dateTime"]
                           ELSE part["date"]
            zone(part) == IF "timeZone" \in DOMAIN part THEN part["timeZone"]
                          ELSE "UTC"
        IN  /\ p["subject"] = IF "summary" \in DOMAIN e THEN e["summary"]
                              ELSE "No Title"
            /\ p["start"] = [dateTime |-> stamp(e["start"]),
                             timeZone |-> zone(e["start"])]
            /\ p["end"] = [dateTime |-> stamp(e["end"]),
                           timeZone |-> zone(e["end"])]
            /\ ("body" \in DOMAIN p) = ("description" \in DOMAIN e)
            /\ "body" \in DOMAIN p
                  => p["body"] = [contentType |-> "text",
                                  content |-> e["description"]]
            /\ ("location" \in DOMAIN p) = ("location" \in DOMAIN e)
            /\ "location" \in DOMAIN p
                  => p["location"] = [displayName |-> e["location"]]
            /\ DOMAIN p \subseteq {"subject", "start", "end", "body", "location"}

\* a POST for an all-day event without summary and without location, with a
\* description, whose start gives no timezone and whose end gives one
C11_Witness ==
    /\ Len(calls) = 1 /\ calls[1].method = "POST" /\ calls[1].ok
    /\ "summary" \notin DOMAIN events[1]
    /\ "location" \notin DOMAIN events[1]
    /\ "description" \in DOMAIN events[1]
    /\ "date" \in DOMAIN events[1]["start"]
    /\ "timeZone" \notin DOMAIN events[1]["start"]
    /\ "timeZone" \in DOMAIN events[1]["end"]
    /\ calls[1].json["start"]["timeZone"] = "UTC"
    /\ calls[1].json["end"]["timeZone"] = "Europe/Paris"

\* C16: a processed source event whose key is in the target mapping and
\* whose title, start and end equal the target's gets no write call when its
\* location equals the target's or when it has no location, whatever the
\* description, the target's body and the target's location are.
C16_IgnoredFields ==
    \A i \in 1..Len(decisions) :
        LET e == events[i]
            key == create_event_key(e, TRUE)
        IN  IF key \notin DOMAIN existing_events THEN TRUE
            ELSE LET t == existing_events[key]
                 IN  (/\ t["subject"] = Summary(e)
                      /\ t["start"]["dateTime"] = StartTime(e)
                      /\ t["end"]["dateTime"] = EndTime(e)
                      /\ IF "location" \in DOMAIN e
                         THEN IF "location" \in DOMAIN t
                              THEN t["location"]["displayName"] = e["location"]
                              ELSE FALSE
                         ELSE TRUE)
                     => decisions[i] = "SKIP" /\ CallsOf(i) = {}

\* the run is over without a call: the source event has a description and
\* no location, the matched target has another body and a location
C16_Witness ==
    /\ RunOver /\ Len(decisions) = 1 /\ calls = <<>>
    /\ create_event_key(events[1], TRUE) \in DOMAIN existing_events
    /\ "description" \in DOMAIN events[1]
    /\ "location" \notin DOMAIN events[1]
    /\ LET t == existing_events[create_event_key(events[1], TRUE)]
       IN  /\ "body" \in DOMAIN t /\ "location" \in DOMAIN t
           /\ t["body"]["content"] # events[1]["description"]
           /\ t["location"]["displayName"] = "M"

-----------------------------------------------------------------------------
(* Order of the steps of one run *)

\* C13: whenever the destination read is issued, the session already has
\* the Authorization header.
C13_TokenBeforeDestRead ==
    [][reads'.dest > reads.dest => "Authorization" \in headers]_vars

\* C14: authenticate_o365 is not reached before authenticate_google
\* succeeded, the source read not before authenticate_o365 succeeded, the
\* destination read not before the source read; each read is issued at most
\* once and the destination read before any write; the write calls follow
\* the order of the source list, at most one per event, none for an event
\* the loop has not reached; and the mapping the decisions use is what was
\* read from the calendar as it was before the run's first write.
C14_SequentialOrder ==
    /\ auth.o365 # "none" => auth.google = "ok"
    /\ reads.source > 0 => auth.o365 = "ok"
    /\ reads.dest > 0 => reads.source = 1
    /\ reads.source <= 1 /\ reads.dest <= 1
    /\ (calls # <<>> \/ decisions # <<>>) => reads.dest = 1
    /\ \A j, k \in 1..Len(calls) : j < k => calls[j].idx < calls[k].idx
    /\ \A k \in 1..Len(calls) : calls[k].idx <= Len(decisions)
    /\ reads.dest = 1 =>
          existing_events
              = get_existing_events(~reads.destFailed,
                                    GraphList(destBefore, dstWindow))
    /\ reads.dest = 0 => dest = destBefore

\* a run over two events is over: the mapping read was not empty, the first
\* write was a POST that changed the calendar, the second a PATCH
C14_Witness ==
    /\ RunOver /\ outcome = "returned"
    /\ existing_events # EmptyDict
    /\ Len(calls) = 2 /\ calls[1].idx = 1 /\ calls[2].idx = 2
    /\ calls[1].method = "POST" /\ calls[1].ok
    /\ calls[2].method = "PATCH" /\ calls[2].ok
    /\ dest # destBefore

\* C17: when the run is over the status line is the success text exactly
\* when both authentications succeeded and sync_calendars returned, which it
\* does when the source list is empty and when write calls failed; otherwise
\* it is the text of the failed Office 365 authentication or starts with
\* "Error: ".
C17_StatusLine ==
    RunOver
    => /\ (status = StatusSuccess)
              = (auth.google = "ok" /\ auth.o365 = "ok" /\ outcome = "returned")
       /\ status # StatusSuccess
              => status = StatusO365Failed \/ status[1] = "Error: "
       /\ (auth.o365 = "ok" /\ reads.source = 1 /\ events = <<>>
              /\ outcome # "raised")
              => status = StatusSuccess
       /\ (\E k \in 1..Len(calls) : ~calls[k].ok) => status = StatusSuccess

\* the run is over with the success text although both of its write calls
\* failed
C17_Witness ==
    /\ RunOver /\ status = StatusSuccess
    /\ Len(events) = 2 /\ Len(calls) = 2
    /\ ~calls[1].ok /\ ~calls[2].ok
    /\ dest = destBefore

-----------------------------------------------------------------------------
(* __init__: load_config, then the window is built from the defaults *)

\* the variables of start_sync and sync_calendars
syncVars == <<gcal, dest, clock, pc, run, events, headers, existing_events,
              idx, decisions, calls, status, outcome, srcWindow, dstWindow,
              reads, prev, runLimit, destBefore, auth>>

\* values of an address in config.json: no such key, or a string
ConfigEmails == {NoField, "", "g@x", "o@y"}

\* JSON documents: objects with or without the two keys, and the documents
\* that are not objects
JsonValues ==
    {[type |-> "object",
      members |-> Opt("gmail_email", g) @@ Opt("o365_email", o)
                  @@ Opt("theme", x)] :
        g \in ConfigEmails, o \in ConfigEmails, x \in {NoField, "dark"}}
    \cup {[type |-> t] : t \in {"array", "string", "number", "null"}}

\* config.json: not there, there but not readable, or a text that is a JSON
\* document or is not one
ConfigFiles ==
    {[kind |-> "absent"], [kind |-> "unreadable"],
     [kind |-> "text", parsed |-> [type |-> "invalid"]]}
    \cup {[kind |-> "text", parsed |-> v] : v \in JsonValues}

\* load_config: only json.JSONDecodeError is caught; open() raising OSError
\* and config.get on a document that is not a dict leave load_config
load_config(file) ==
    IF file.kind = "absent"
    THEN [stage |-> "loaded", gmail_email_default |-> "",
          o365_email_default |-> ""]
    ELSE IF file.kind = "unreadable"
    THEN [stage |-> "aborted", error |-> "PermissionError"]
    ELSE IF file.parsed.type = "invalid"
    THEN [stage |-> "loaded", gmail_email_default |-> "",
          o365_email_default |-> ""]
    ELSE IF file.parsed.type = "object"
    THEN [stage |-> "loaded",
          gmail_email_default |-> Get(file.parsed.members, "gmail_email", ""),
          o365_email_default |-> Get(file.parsed.members, "o365_email", "")]
    ELSE [stage |-> "aborted", error |-> "AttributeError"]

\* __init__ calls load_config; an exception leaving it ends the program
LoadConfig ==
    /\ config.stage = "init"
    /\ config' = load_config(config.file) @@ [file |-> config.file]
    /\ UNCHANGED <<syncVars, keyTest, other>>

\* setup_gui fills the two entries from the defaults
SetupGui ==
    /\ config.stage = "loaded"
    /\ config' = [stage |-> "gui", file |-> config.file,
                  gmail_email_default |-> config.gmail_email_default,
                  o365_email_default |-> config.o365_email_default,
                  gmail_email |-> config.gmail_email_default,
                  o365_email |-> config.o365_email_default]
    /\ UNCHANGED <<syncVars, keyTest, other>>

InitConfig ==
    /\ config \in [stage : {"init"}, file : ConfigFiles]
    /\ gcal = <<>>
    /\ dest = <<>>
    /\ runLimit = 0
    /\ keyTest = NoKeyTest
    /\ other = NoOther
    /\ InitRun

NextConfig == LoadConfig \/ SetupGui

SpecConfig == InitConfig /\ [][NextConfig]_vars

\* C12: load_config never ends start-up, and when config.json is absent or
\* is not a JSON object (not JSON at all, or JSON of another type) it
\* finishes with both defaults set to the empty string.
C12_ConfigFallback ==
    /\ config.stage # "aborted"
    /\ (/\ config.stage \in {"loaded", "gui"}
        /\ IF config.file.kind = "text"
           THEN config.file.parsed.type # "object"
           ELSE config.file.kind = "absent")
       => /\ config.gmail_email_default = ""
          /\ config.o365_email_default = ""

-----------------------------------------------------------------------------
(* Two instances of the program run sync_calendars against the same two     *)
(* calendars.  The first is the run of the variables above; the second is   *)
(* the record other, which starts authenticated, at the source read.        *)

\* the variables the second instance neither reads nor writes, and gcal
\* and clock, which it only reads
otherUnchanged == <<gcal, clock, pc, run, events, headers, existing_events,
                    idx, decisions, calls, status, outcome, srcWindow,
                    dstWindow, reads, prev, runLimit, destBefore, auth,
                    keyTest, config>>

\* the second instance before its source read; destBefore is history
OtherStart(cal) ==
    [pc |-> "source_read", events |-> <<>>, existing_events |-> EmptyDict,
     idx |-> 0, calls |-> <<>>, destFailed |-> FALSE, raised |-> FALSE,
     destBefore |-> cal]

\* the source read of the second instance
OtherSourceRead ==
    /\ other.pc = "source_read"
    /\ LET items == GoogleList(gcal, SyncWindow(clock))
       IN  other' = [other EXCEPT
                        !.events = items,
                        !.pc = IF items = <<>> THEN "done" ELSE "dest_read"]
    /\ UNCHANGED <<otherUnchanged, dest>>

\* the source read or the browser session of the second instance raises
OtherRaise ==
    /\ other.pc \in {"source_read", "dest_read"}
    /\ other' = [other EXCEPT !.pc = "done", !.raised = TRUE]
    /\ UNCHANGED <<otherUnchanged, dest>>

\* existing_events = self.get_existing_events(session), second instance
OtherDestRead ==
    /\ other.pc = "dest_read"
    /\ \E ok \in BOOLEAN :
          other' = [other EXCEPT
                       !.existing_events =
                           get_existing_events(ok,
                               GraphList(dest, SyncWindow(clock))),
                       !.destFailed = ~ok,
                       !.pc = "loop",
                       !.idx = 1]
    /\ UNCHANGED <<otherUnchanged, dest>>

\* the second instance after one iteration, cs being its write calls
OtherContinue(cs) ==
    [other EXCEPT !.calls = cs,
                  !.idx = @ + 1,
                  !.pc = IF other.idx = Len(other.events) THEN "done"
                         ELSE "loop"]

\* second instance: the key is found and needs_update is False
OtherSkip ==
    /\ other.pc = "loop"
    /\ Decision(other.existing_events, other.events[other.idx]) = "SKIP"
    /\ other' = OtherContinue(other.calls)
    /\ UNCHANGED <<otherUnchanged, dest>>

\* second instance: session.patch
OtherPatch ==
    /\ other.pc = "loop"
    /\ LET event == other.events[other.idx]
           o365_event == O365Event(event)
           event_key == create_event_key(event, TRUE)
       IN  /\ Decision(other.existing_events, event) = "UPDATE"
           /\ \E ok \in BOOLEAN :
                 /\ ok => Acceptable(o365_event)
                 /\ dest' = IF ok
                            THEN Patched(dest, o365_event,
                                     other.existing_events[event_key]["id"])
                            ELSE dest
                 /\ other' = OtherContinue(Append(other.calls,
                        [idx |-> other.idx, method |-> "PATCH",
                         target |-> other.existing_events[event_key]["id"],
                         json |-> o365_event, ok |-> ok]))
    /\ UNCHANGED otherUnchanged

\* second instance: session.post
OtherPost ==
    /\ other.pc = "loop"
    /\ LET event == other.events[other.idx]
           o365_event == O365Event(event)
       IN  /\ Decision(other.existing_events, event) = "CREATE"
           /\ \E ok \in BOOLEAN :
                 /\ ok => Acceptable(o365_event) /\ Len(dest) < MaxDest
                 /\ IF ok
                    THEN \E id \in DestIds \ UsedIds(dest) :
                            dest' = Posted(dest, o365_event, id)
                    ELSE dest' = dest
                 /\ other' = OtherContinue(Append(other.calls,
                        [idx |-> other.idx, method |-> "POST",
                         target |-> None, json |-> o365_event, ok |-> ok]))
    /\ UNCHANGED otherUnchanged

InitConcurrent ==
    /\ gcal \in {c \in GoogleCalendars : Len(c) <= 1}
    /\ dest \in DestCalendars
    /\ runLimit = 1
    /\ keyTest = NoKeyTest
    /\ config = NoConfig
    /\ other = OtherStart(dest)
    /\ InitRun

NextConcurrent ==
    \/ Next
    \/ OtherSourceRead
    \/ OtherRaise
    \/ OtherDestRead
    \/ OtherSkip
    \/ OtherPatch
    \/ OtherPost

SpecConcurrent == InitConcurrent /\ [][NextConcurrent]_vars

\* the events of cal that carry the payload of source event e
CopiesOf(cal, e) ==
    {j \in 1..Len(cal) :
        \A f \in DOMAIN O365Event(e) : f \in DOMAIN cal[j]
                                       /\ cal[j][f] = O365Event(e)[f]}

\* C15: when two instances have run sync_calendars over the same source
\* list against the same destination, empty at first, and each read the
\* destination without failure and found it empty, then, their write calls
\* being accepted, each has issued one POST per source event and the
\* destination holds two events for every source event.
C15_NoGuard ==
    (/\ RunOver /\ outcome = "returned"
     /\ other.pc = "done" /\ ~other.raised
     /\ other.destBefore = <<>>
     /\ other.events = events
     /\ reads.dest = 1 /\ ~reads.destFailed /\ existing_events = EmptyDict
     /\ ~other.destFailed /\ other.existing_events = EmptyDict
     /\ AllOk(calls) /\ AllOk(other.calls))
    => \A i \in 1..Len(events) :
          /\ \E k \in 1..Len(calls) :
                calls[k].idx = i /\ calls[k].method = "POST"
          /\ \E k \in 1..Len(other.calls) :
                other.calls[k].idx = i /\ other.calls[k].method = "POST"
          /\ Cardinality(CopiesOf(dest, events[i])) = 2

\* both instances are done, the clock never moved, both destination reads
\* succeeded, both POSTed the one source event and the destination, empty
\* at first, holds two events with its title and timestamps
C15_Witness ==
    /\ RunOver /\ other.pc = "done" /\ clock = 0
    /\ other.destBefore = <<>>
    /\ Len(events) = 1 /\ other.events = events
    /\ ~reads.destFailed /\ ~other.destFailed
    /\ Len(calls) = 1 /\ calls[1].method = "POST" /\ calls[1].ok
    /\ Len(other.calls) = 1 /\ other.calls[1].method = "POST"
    /\ other.calls[1].ok
    /\ Len(dest) = 2
    /\ dest[1]["subject"] = dest[2]["subject"]
    /\ dest[1]["start"] = dest[2]["start"]
    /\ dest[1]["end"] = dest[2]["end"]
    /\ dest[1]["id"] # dest[2]["id"]

-----------------------------------------------------------------------------
(* The title-keyed variant, src/Freeze/calendar_sync.py.  Its start_sync,   *)
(* its authentications and its browser session are those above; its reads   *)
(* and its loop differ and are the actions below.                            *)

\* maxResults of the variant's source read
FreezeMaxResults == 100

\* events().list(timeMin=now, maxResults=100, orderBy=startTime): no timeMax
FreezeGoogleList(cal, now) ==
    LET fromNow(e) == TimeOf(IsoFormat(now)) <= TimeOf(StartTime(e))
        items == SelectSeq(cal, fromNow)
    IN  SubSeq(items, 1, Min(Len(items), FreezeMaxResults))

\* {event['subject']: event for event in value}: the last event wins
FreezeEventsDict(value) ==
    LET subjects == {value[i]["subject"] : i \in 1..Len(value)}
        last(k) == CHOOSE i \in 1..Len(value) :
                      /\ value[i]["subject"] = k
                      /\ \A j \in (i+1)..Len(value) : value[j]["subject"] # k
    IN  [k \in subjects |-> value[last(k)]]

\* the variant's mapping built from event['summary'], a key the stored
\* events do not have: the KeyError is caught and the mapping is {}
Freeze_get_existing_events_summary(ok, value) ==
    IF ok /\ \A i \in 1..Len(value) : "summary" \in DOMAIN value[i]
    THEN [k \in {value[i]["summary"] : i \in 1..Len(value)} |->
             value[CHOOSE i \in 1..Len(value) : value[i]["summary"] = k]]
    ELSE EmptyDict

\* the variant's get_existing_events: GET /me/events without a filter
Freeze_get_existing_events(ok, value) ==
    IF ok THEN FreezeEventsDict(value) ELSE EmptyDict

\* the variant's o365_event: subject, start and end only
FreezeO365Event(event) ==
    [subject |-> Summary(event),
     start   |-> [dateTime |-> StartTime(event),
                  timeZone |-> Get(event["start"], "timeZone", "UTC")],
     end     |-> [dateTime |-> EndTime(event),
                  timeZone |-> Get(event["end"], "timeZone", "UTC")]]

\* if event_summary in existing_events: continue
FreezeDecision(existing, event) ==
    IF Summary(event) \in DOMAIN existing THEN "SKIP" ELSE "CREATE"

\* the variant's source read
FreezeSourceRead ==
    /\ pc = "source_read"
    /\ srcWindow' = [lo |-> IsoFormat(clock), hi |-> None]
    /\ reads' = [reads EXCEPT !.source = @ + 1]
    /\ events' = FreezeGoogleList(gcal, clock)
    /\ IF events' = <<>>
       THEN Return
       ELSE pc' = "open_session" /\ UNCHANGED <<status, outcome>>
    /\ UNCHANGED <<gcal, dest, clock, run, headers, existing_events, idx,
                   decisions, calls, dstWindow, prev, runLimit, destBefore,
                   auth, keyTest, config, other>>

\* the variant's source read raises
FreezeSourceReadRaise ==
    /\ pc = "source_read"
    /\ srcWindow' = [lo |-> IsoFormat(clock), hi |-> None]
    /\ reads' = [reads EXCEPT !.source = @ + 1]
    /\ Abort("source read failed")
    /\ UNCHANGED <<gcal, dest, clock, run, events, headers,
                   existing_events, idx, decisions, calls, dstWindow, prev,
                   runLimit, destBefore, auth, keyTest, config, other>>

\* the variant's existing_events = self.get_existing_events(session)
FreezeDestRead ==
    /\ pc = "dest_read"
    /\ \E ok \in BOOLEAN :
          /\ reads' = [reads EXCEPT !.dest = @ + 1, !.destFailed = ~ok]
          /\ existing_events' = Freeze_get_existing_events(ok, dest)
    /\ pc' = "loop"
    /\ idx' = 1
    /\ UNCHANGED <<gcal, dest, clock, run, events, headers, decisions,
                   calls, status, outcome, srcWindow, dstWindow, prev,
                   runLimit, destBefore, auth, keyTest, config, other>>

\* the title is a key of the mapping: continue, before the headers are set
FreezeSkip ==
    /\ pc = "loop"
    /\ FreezeDecision(existing_events, events[idx]) = "SKIP"
    /\ decisions' = Append(decisions, "SKIP")
    /\ Continue
    /\ UNCHANGED <<gcal, dest, clock, run, events, headers,
                   existing_events, calls, srcWindow, dstWindow, reads,
                   prev, runLimit, destBefore, auth, keyTest, config, other>>

\* the title is not a key of the mapping: session.post
FreezePost ==
    /\ pc = "loop"
    /\ LET event == events[idx]
           o365_event == FreezeO365Event(event)
       IN  /\ FreezeDecision(existing_events, event) = "CREATE"
           /\ decisions' = Append(decisions, "CREATE")
           /\ \E ok \in BOOLEAN :
                 /\ ok => Acceptable(o365_event) /\ Len(dest) < MaxDest
                 /\ IF ok
                    THEN \E id \in DestIds \ UsedIds(dest) :
                            dest' = Posted(dest, o365_event, id)
                    ELSE dest' = dest
                 /\ calls' = Append(calls,
                        [idx |-> idx, method |-> "POST", target |-> None,
                         json |-> o365_event, ok |-> ok])
                 /\ Written(ok)
    /\ SetHeaders
    /\ UNCHANGED <<gcal, clock, run, events, existing_events, srcWindow,
                   dstWindow, reads, prev, runLimit, destBefore, auth,
                   keyTest, config, other>>

\* source lists of at most two events, which may share their title; the
\* variant never reads the location
FreezeCalendars ==
    {c \in GoogleCalendars :
        \A i \in 1..Len(c) : "location" \notin DOMAIN c[i]}

\* the destination holds nothing or one event, which has a title of the
\* source lists
FreezeDest ==
    {c \in DestCalendars :
        Len(c) = 1 => /\ c[1]["id"] = <<"x">>
                      /\ "location" \notin DOMAIN c[1]
                      /\ c[1]["start"]["dateTime"] = <<"0", "0">>
                      /\ c[1]["end"]["dateTime"] = <<"0", "6">>}

InitFreeze ==
    /\ gcal \in FreezeCalendars
    /\ dest \in FreezeDest
    /\ runLimit = MaxRuns
    /\ keyTest = NoKeyTest
    /\ config = NoConfig
    /\ other = NoOther
    /\ InitRun

NextFreeze ==
    \/ StartSync
    \/ AuthGoogleOk
    \/ AuthGoogleRaise
    \/ AuthO365
    \/ FreezeSourceRead
    \/ FreezeSourceReadRaise
    \/ OpenSession
    \/ OpenSessionRaise
    \/ FreezeDestRead
    \/ FreezeSkip
    \/ FreezePost
    \/ Tick

SpecFreeze == InitFreeze /\ [][NextFreeze]_vars

\* subjects of the events the destination read of this run returned
ReturnedSubjects ==
    IF reads.destFailed THEN {}
    ELSE {destBefore[j]["subject"] : j \in 1..Len(destBefore)}

\* C18: in the title-keyed variant a processed source event has a write
\* call, one POST, exactly when its title ("No Title" when it has none) is
\* not the subject of an event the destination read of the run returned;
\* and a run that follows a run whose POSTs were all accepted, reads the
\* same source list and reads the destination without failure issues no
\* write call.
C18_TitleKeyed ==
    /\ \A i \in 1..Len(decisions) :
          LET title == IF "summary" \in DOMAIN events[i]
                       THEN events[i]["summary"] ELSE "No Title"
          IN  /\ (CallsOf(i) # {}) = (title \notin ReturnedSubjects)
              /\ Cardinality(CallsOf(i)) <= 1
              /\ \A k \in CallsOf(i) : calls[k].method = "POST"
    /\ (RunOver /\ outcome = "returned" /\ reads.dest = 1
           /\ ~reads.destFailed
           /\ prev.valid /\ prev.written /\ prev.events = events)
       => calls = <<>>

\* the second run is over without a call: its two source events share
\* their title, the run before POSTed both and the destination holds the
\* two events with that subject
C18_Witness ==
    /\ RunOver /\ run = 2 /\ outcome = "returned"
    /\ prev.valid /\ prev.written /\ prev.events = events
    /\ reads.dest = 1 /\ ~reads.destFailed
    /\ Len(events) = 2 /\ Summary(events[1]) = Summary(events[2])
    /\ Len(dest) = 2
    /\ dest[1]["subject"] = Summary(events[1])
    /\ dest[2]["subject"] = Summary(events[1])
    /\ calls = <<>>

====
